---- MODULE Spec2Model ----
(***************************************************************************)
(* Model of runtime-modeling/models.py: the MnasNet block-string codec     *)
(* (MnasNetDecoder), the two presets (mnasnet_3x3_1, mnasnet_backbone) and *)
(* the dispatch wrapper build_mnasnet_model.                               *)
(*                                                                         *)
(* A Python str is a sequence of one-character strings, so that split,     *)
(* re.split, int(), float(), '%d' and '%s' are computed, not assumed.      *)
(* A Python exception is a record [type, at, detail]: the exception class, *)
(* the function that raised it, and the key / field / name it carries.     *)
(***************************************************************************)
EXTENDS Integers, Sequences, FiniteSets, TLC

VARIABLES op, arg, res, py, decodeCalls, gpBuilt, builderCalls, base

vars == <<op, arg, res, py, decodeCalls, gpBuilt, builderCalls, base>>

(* ------------------------------ bounds -------------------------------- *)
MaxRepeat == 2
MaxParam  == 3
MaxSeqLen == 2

(* ------------------------- Python values ------------------------------ *)
NoneV      == [t |-> "None"]
PyInt(i)   == [t |-> "int", i |-> i]
PyStr(s)   == [t |-> "str", s |-> s]
\* a float with the decimal value m / 10^e, m not divisible by 10 unless e = 0
PyFloat(m, e) == [t |-> "float", m |-> m, e |-> e]

\* the value of a singleton set; Only({ F(x) : x \in {e} }) is F(e) with e
\* computed once
Only(S) == CHOOSE x \in S : TRUE

Ok(v) == [ok |-> TRUE, val |-> v]
Raise(type, at, detail) ==
  [ok |-> FALSE, err |-> [type |-> type, at |-> at, detail |-> detail]]

Digits == {"0", "1", "2", "3", "4", "5", "6", "7", "8", "9"}

DigitVal(c) ==
  CASE c = "0" -> 0 [] c = "1" -> 1 [] c = "2" -> 2 [] c = "3" -> 3
    [] c = "4" -> 4 [] c = "5" -> 5 [] c = "6" -> 6 [] c = "7" -> 7
    [] c = "8" -> 8 [] c = "9" -> 9

DigitChar(d) == <<"0", "1", "2", "3", "4", "5", "6", "7", "8", "9">>[d + 1]

RECURSIVE Pow10(_)
Pow10(n) == IF n = 0 THEN 1 ELSE 10 * Pow10(n - 1)

AllDigits(s) == \A j \in 1..Len(s) : s[j] \in Digits

RECURSIVE DigitsVal(_)
DigitsVal(s) ==
  IF s = <<>> THEN 0 ELSE 10 * DigitsVal(SubSeq(s, 1, Len(s) - 1)) + DigitVal(s[Len(s)])

RECURSIVE NatStr(_)
NatStr(n) == IF n < 10 THEN <<DigitChar(n)>> ELSE NatStr(n \div 10) \o <<DigitChar(n % 10)>>

\* str(n) and '%d' % n of an int
IntStr(n) == IF n < 0 THEN <<"-">> \o NatStr(-n) ELSE NatStr(n)

\* int(s) of a str: an optional sign and one or more decimal digits
IntOfStr(s) ==
  LET body == IF s # <<>> /\ s[1] \in {"-", "+"} THEN Tail(s) ELSE s
      neg  == s # <<>> /\ s[1] = "-"
  IN IF body # <<>> /\ AllDigits(body)
       THEN Ok(IF neg THEN -DigitsVal(body) ELSE DigitsVal(body))
       ELSE Raise("ValueError", "int", "invalid literal")

\* int(v) of a Python value
PyIntOf(v) ==
  CASE v.t = "int"  -> Ok(v.i)
    [] v.t = "str"  -> IntOfStr(v.s)
    [] v.t = "None" -> Raise("TypeError", "int", "NoneType")

RECURSIVE Normalize(_, _)
Normalize(m, e) ==
  IF e > 0 /\ m % 10 = 0 THEN Normalize(m \div 10, e - 1) ELSE PyFloat(m, e)

IndexOf(s, c) ==
  IF \E j \in 1..Len(s) : s[j] = c
    THEN CHOOSE j \in 1..Len(s) : s[j] = c /\ \A h \in 1..(j - 1) : s[h] # c
    ELSE 0

\* float(s) of a str in plain decimal notation: digits, then optionally "." and digits
FloatOfStr(s) ==
  LET p    == IndexOf(s, ".")
      ip   == IF p = 0 THEN s ELSE SubSeq(s, 1, p - 1)
      fp   == IF p = 0 THEN <<>> ELSE SubSeq(s, p + 1, Len(s))
  IN IF ip # <<>> /\ AllDigits(ip) /\ AllDigits(fp)
       THEN Ok(Normalize(DigitsVal(ip) * Pow10(Len(fp)) + DigitsVal(fp), Len(fp)))
       ELSE Raise("ValueError", "float", "could not convert")

RECURSIVE ZeroPad(_, _)
ZeroPad(s, n) == IF Len(s) >= n THEN s ELSE ZeroPad(<<"0">> \o s, n)

\* str(x) and '%s' % x of a float: at least one fractional digit
FloatStr(x) ==
  IF x.e = 0 THEN NatStr(x.m) \o <<".", "0">>
  ELSE NatStr(x.m \div Pow10(x.e)) \o <<".">> \o ZeroPad(NatStr(x.m % Pow10(x.e)), x.e)

(* --------------------------- str helpers ------------------------------ *)
RECURSIVE Split(_)
\* s.split('_')
Split(s) ==
  LET p == IndexOf(s, "_")
  IN IF p = 0 THEN <<s>>
     ELSE <<SubSeq(s, 1, p - 1)>> \o Split(SubSeq(s, p + 1, Len(s)))

RECURSIVE Join(_)
\* '_'.join(args)
Join(args) ==
  IF args = <<>> THEN <<>>
  ELSE IF Len(args) = 1 THEN args[1]
  ELSE args[1] \o <<"_">> \o Join(Tail(args))

\* sub in s
Contains(s, sub) ==
  \E j \in 0..(Len(s) - Len(sub)) : SubSeq(s, j + 1, j + Len(sub)) = sub

FirstDigit(s) ==
  IF \E j \in 1..Len(s) : s[j] \in Digits
    THEN CHOOSE j \in 1..Len(s) : s[j] \in Digits /\ \A h \in 1..(j - 1) : s[h] \notin Digits
    ELSE 0

\* re.split(r'(\d.*)', op) for an op without a line break: the group matches
\* from the first digit to the end, leaving an empty tail
ReSplit(opstr) ==
  LET p == FirstDigit(opstr)
  IN IF p = 0 THEN <<opstr>>
     ELSE <<SubSeq(opstr, 1, p - 1), SubSeq(opstr, p, Len(opstr)), <<>>>>

\* d[k] = v on a dict
Put(d, k, v) == [x \in (DOMAIN d) \cup {k} |-> IF x = k THEN v ELSE d[x]]

(* ---------------------------- MnasNetDecoder -------------------------- *)
RECURSIVE ParseOptions(_, _)
\* the loop over ops filling options
ParseOptions(ops, options) ==
  IF ops = <<>> THEN options
  ELSE LET splits == ReSplit(Head(ops))
       IN ParseOptions(Tail(ops),
            IF Len(splits) >= 2 THEN Put(options, splits[1], splits[2]) ELSE options)

Options(block_string) == ParseOptions(Split(block_string), <<>>)

\* StridesOk with a fault: a value longer than two characters is let through
StridesOkAtLeastTwo(options) == <<"s">> \in DOMAIN options /\ Len(options[<<"s">>]) >= 2

\* the negation of the condition guarding the strides ValueError
StridesOk(options) == <<"s">> \in DOMAIN options /\ Len(options[<<"s">>]) = 2

\* an exception of a callee propagates out of the caller `site`
From(r, site) == IF r.ok THEN r ELSE [r EXCEPT !.err.at = site]

\* int(options[key])
IntOption(options, key, name) ==
  IF key \notin DOMAIN options
    THEN Raise("KeyError", "_decode_block_string", name)
    ELSE From(IntOfStr(options[key]), "_decode_block_string")

\* float(options['se']) if 'se' in options else None
SeOption(options) ==
  IF <<"s", "e">> \in DOMAIN options
    THEN From(FloatOfStr(options[<<"s", "e">>]), "_decode_block_string")
    ELSE Ok(NoneV)

\* 'noskip' not in block_string
IdSkip(block_string) == ~Contains(block_string, <<"n", "o", "s", "k", "i", "p">>)

FirstFailure(rs) ==
  IF \E j \in 1..Len(rs) : ~rs[j].ok
    THEN CHOOSE j \in 1..Len(rs) : ~rs[j].ok /\ \A h \in 1..(j - 1) : rs[h].ok
    ELSE 0

\* the keyword arguments of model_def.BlockArgs, in evaluation order
BlockArgsFields(block_string, options) ==
  << IntOption(options, <<"k">>, "k"),
     IntOption(options, <<"r">>, "r"),
     IntOption(options, <<"i">>, "i"),
     IntOption(options, <<"o">>, "o"),
     IntOption(options, <<"e">>, "e"),
     Ok(IdSkip(block_string)),
     SeOption(options),
     From(IntOfStr(<<options[<<"s">>][1]>>), "_decode_block_string"),
     From(IntOfStr(<<options[<<"s">>][2]>>), "_decode_block_string") >>

\* model_def.BlockArgs(...): the first argument that raises ends the call
BlockArgs(f) ==
  IF FirstFailure(f) # 0 THEN f[FirstFailure(f)]
  ELSE Ok([kernel_size    |-> f[1].val,
           num_repeat     |-> f[2].val,
           input_filters  |-> f[3].val,
           output_filters |-> f[4].val,
           expand_ratio   |-> f[5].val,
           id_skip        |-> f[6].val,
           se_ratio       |-> f[7].val,
           strides        |-> <<f[8].val, f[9].val>>])

_decode_block_string(block_string) ==
  Only({ IF ~StridesOk(options)
           THEN Raise("ValueError", "_decode_block_string", "strides")
           ELSE Only({ BlockArgs(f) : f \in {BlockArgsFields(block_string, options)} })
         : options \in {Options(block_string)} })

\* block.se_ratio > 0 and block.se_ratio <= 1; None orders below every number
\* on Python 2 and is unorderable on Python 3
SeInRange(se_ratio, pyv) ==
  IF se_ratio.t = "None"
    THEN IF pyv = 2 THEN Ok(FALSE)
         ELSE Raise("TypeError", "_encode_block_string", "se_ratio")
    ELSE Ok(se_ratio.m > 0 /\ se_ratio.m <= Pow10(se_ratio.e))

EncodeArgs(block) ==
  << <<"r">> \o IntStr(block.num_repeat),
     <<"k">> \o IntStr(block.kernel_size),
     <<"s">> \o IntStr(block.strides[1]) \o IntStr(block.strides[2]),
     <<"e">> \o IntStr(block.expand_ratio),
     <<"i">> \o IntStr(block.input_filters),
     <<"o">> \o IntStr(block.output_filters) >>

_encode_block_string(block, pyv) ==
  Only({ IF ~c.ok THEN c
         ELSE Ok(Join(EncodeArgs(block)
                  \o (IF c.val THEN << <<"s", "e">> \o FloatStr(block.se_ratio) >> ELSE <<>>)
                  \o (IF block.id_skip = FALSE THEN << <<"n", "o", "s", "k", "i", "p">> >> ELSE <<>>)))
         : c \in {SeInRange(block.se_ratio, pyv)} })

\* a loop appending rs[j] for each element: it stops at the first that raises;
\* calls is how many elements it reached
Loop(rs) ==
  IF FirstFailure(rs) # 0
    THEN [result |-> rs[FirstFailure(rs)], calls |-> FirstFailure(rs)]
    ELSE [result |-> Ok([j \in 1..Len(rs) |-> rs[j].val]), calls |-> Len(rs)]

\* decode, with the number of _decode_block_string calls it made
DecodeRun(string_list) ==
  Only({ Loop(rs) :
         rs \in {[j \in 1..Len(string_list) |-> _decode_block_string(string_list[j])]} })

decode(string_list) == DecodeRun(string_list).result

encode(blocks_args, pyv) ==
  Only({ Loop(rs).result :
         rs \in {[j \in 1..Len(blocks_args) |-> _encode_block_string(blocks_args[j], pyv)]} })

(* ------------------------------ presets -------------------------------- *)
\* FixedStrings with a fault: the third stage takes 16 filters, not the 24 given
FixedStringsUnchained ==
  << <<"r", "1", "_", "k", "3", "_", "s", "1", "1", "_", "e", "1", "_", "i", "3", "2", "_", "o", "1", "6", "_", "n", "o", "s", "k", "i", "p">>,
     <<"r", "4", "_", "k", "3", "_", "s", "2", "2", "_", "e", "1", "_", "i", "1", "6", "_", "o", "2", "4">>,
     <<"r", "4", "_", "k", "3", "_", "s", "2", "2", "_", "e", "1", "_", "i", "1", "6", "_", "o", "4", "0">>,
     <<"r", "4", "_", "k", "3", "_", "s", "2", "2", "_", "e", "1", "_", "i", "4", "0", "_", "o", "8", "0">>,
     <<"r", "4", "_", "k", "3", "_", "s", "1", "1", "_", "e", "1", "_", "i", "8", "0", "_", "o", "9", "6">>,
     <<"r", "4", "_", "k", "3", "_", "s", "2", "2", "_", "e", "1", "_", "i", "9", "6", "_", "o", "1", "9", "2">>,
     <<"r", "1", "_", "k", "3", "_", "s", "1", "1", "_", "e", "6", "_", "i", "1", "9", "2", "_", "o", "3", "2", "0", "_", "n", "o", "s", "k", "i", "p">> >>

\* blocks_args of mnasnet_3x3_1
FixedStrings ==
  << <<"r", "1", "_", "k", "3", "_", "s", "1", "1", "_", "e", "1", "_", "i", "3", "2", "_", "o", "1", "6", "_", "n", "o", "s", "k", "i", "p">>,
     <<"r", "4", "_", "k", "3", "_", "s", "2", "2", "_", "e", "1", "_", "i", "1", "6", "_", "o", "2", "4">>,
     <<"r", "4", "_", "k", "3", "_", "s", "2", "2", "_", "e", "1", "_", "i", "2", "4", "_", "o", "4", "0">>,
     <<"r", "4", "_", "k", "3", "_", "s", "2", "2", "_", "e", "1", "_", "i", "4", "0", "_", "o", "8", "0">>,
     <<"r", "4", "_", "k", "3", "_", "s", "1", "1", "_", "e", "1", "_", "i", "8", "0", "_", "o", "9", "6">>,
     <<"r", "4", "_", "k", "3", "_", "s", "2", "2", "_", "e", "1", "_", "i", "9", "6", "_", "o", "1", "9", "2">>,
     <<"r", "1", "_", "k", "3", "_", "s", "1", "1", "_", "e", "6", "_", "i", "1", "9", "2", "_", "o", "3", "2", "0", "_", "n", "o", "s", "k", "i", "p">> >>

\* global_params of mnasnet_3x3_1
FixedGlobalParams(depth_multiplier) ==
  [batch_norm_momentum |-> PyFloat(99, 2),
   batch_norm_epsilon  |-> PyFloat(1, 3),
   dropout_rate        |-> PyFloat(2, 1),
   data_format         |-> PyStr(<<"c", "h", "a", "n", "n", "e", "l", "s", "_", "l", "a", "s", "t">>),
   num_classes         |-> PyInt(1000),
   depth_multiplier    |-> depth_multiplier,
   depth_divisor       |-> PyInt(8),
   min_depth           |-> NoneV]

mnasnet_3x3_1(depth_multiplier) ==
  Only({ [blocks |-> d.result,
          gp     |-> FixedGlobalParams(depth_multiplier),
          calls  |-> d.calls] : d \in {DecodeRun(FixedStrings)} })

\* BackboneStrings with a fault: the sixth template keeps kernel 3
BackboneStringsSixthFixed(k, e) ==
  << <<"r", "1", "_", "k", "3", "_", "s", "1", "1", "_", "e", "1", "_", "i", "3", "2", "_", "o", "1", "6", "_", "n", "o", "s", "k", "i", "p">>,
     <<"r", "4", "_", "k">> \o IntStr(k) \o <<"_", "s", "2", "2", "_", "e">> \o IntStr(e) \o <<"_", "i", "1", "6", "_", "o", "2", "4">>,
     <<"r", "4", "_", "k">> \o IntStr(k) \o <<"_", "s", "2", "2", "_", "e">> \o IntStr(e) \o <<"_", "i", "2", "4", "_", "o", "4", "0">>,
     <<"r", "4", "_", "k">> \o IntStr(k) \o <<"_", "s", "2", "2", "_", "e">> \o IntStr(e) \o <<"_", "i", "4", "0", "_", "o", "8", "0">>,
     <<"r", "4", "_", "k">> \o IntStr(k) \o <<"_", "s", "1", "1", "_", "e">> \o IntStr(e) \o <<"_", "i", "8", "0", "_", "o", "9", "6">>,
     <<"r", "4", "_", "k", "3", "_", "s", "2", "2", "_", "e">> \o IntStr(e) \o <<"_", "i", "9", "6", "_", "o", "1", "9", "2">>,
     <<"r", "1", "_", "k", "3", "_", "s", "1", "1", "_", "e", "6", "_", "i", "1", "9", "2", "_", "o", "3", "2", "0", "_", "n", "o", "s", "k", "i", "p">> >>

\* blocks_args of mnasnet_backbone: str(k) and str(e) spliced into the templates
BackboneStrings(k, e) ==
  << <<"r", "1", "_", "k", "3", "_", "s", "1", "1", "_", "e", "1", "_", "i", "3", "2", "_", "o", "1", "6", "_", "n", "o", "s", "k", "i", "p">>,
     <<"r", "4", "_", "k">> \o IntStr(k) \o <<"_", "s", "2", "2", "_", "e">> \o IntStr(e) \o <<"_", "i", "1", "6", "_", "o", "2", "4">>,
     <<"r", "4", "_", "k">> \o IntStr(k) \o <<"_", "s", "2", "2", "_", "e">> \o IntStr(e) \o <<"_", "i", "2", "4", "_", "o", "4", "0">>,
     <<"r", "4", "_", "k">> \o IntStr(k) \o <<"_", "s", "2", "2", "_", "e">> \o IntStr(e) \o <<"_", "i", "4", "0", "_", "o", "8", "0">>,
     <<"r", "4", "_", "k">> \o IntStr(k) \o <<"_", "s", "1", "1", "_", "e">> \o IntStr(e) \o <<"_", "i", "8", "0", "_", "o", "9", "6">>,
     <<"r", "4", "_", "k">> \o IntStr(k) \o <<"_", "s", "2", "2", "_", "e">> \o IntStr(e) \o <<"_", "i", "9", "6", "_", "o", "1", "9", "2">>,
     <<"r", "1", "_", "k", "3", "_", "s", "1", "1", "_", "e", "6", "_", "i", "1", "9", "2", "_", "o", "3", "2", "0", "_", "n", "o", "s", "k", "i", "p">> >>

\* global_params of mnasnet_backbone
BackboneGlobalParams(k, e) ==
  [batch_norm_momentum |-> PyFloat(99, 2),
   batch_norm_epsilon  |-> PyFloat(1, 3),
   dropout_rate        |-> PyFloat(2, 1),
   data_format         |-> PyStr(<<"c", "h", "a", "n", "n", "e", "l", "s", "_", "l", "a", "s", "t">>),
   num_classes         |-> PyInt(1000),
   depth_multiplier    |-> NoneV,
   depth_divisor       |-> PyInt(8),
   expratio            |-> PyInt(e),
   kernel              |-> PyInt(k),
   min_depth           |-> NoneV]

mnasnet_backbone(k, e) ==
  Only({ [blocks |-> d.result,
          gp     |-> BackboneGlobalParams(k, e),
          calls  |-> d.calls] : d \in {DecodeRun(BackboneStrings(k, e))} })

(* ------------------------- build_mnasnet_model ------------------------- *)
PyDict(d) == [t |-> "dict", d |-> d]

\* truth value of override_params
Truthy(override_params) == override_params.t = "dict" /\ DOMAIN override_params.d # {}

\* IsPredefined with a fault: every name starting with mnasnet is taken
IsPredefinedByPrefix(model_name) ==
  model_name \in {"mnasnet-backbone", "mnasnet-3x3-1", "mnasnet-a1"}

\* model_name == 'mnasnet-backbone'
IsPredefined(model_name) == model_name = "mnasnet-backbone"

\* BuildParam with a fault: a parameter that is not given defaults to 3
BuildParamDefaulted(override_params, key) ==
  IF override_params.t = "None" THEN Ok(3)
  ELSE IF key \notin DOMAIN override_params.d THEN Ok(3)
  ELSE LET r == From(PyIntOf(override_params.d[key]), "build_mnasnet_model")
       IN IF r.ok THEN r ELSE [r EXCEPT !.err.detail = key]

\* int(override_params[key])
BuildParam(override_params, key) ==
  IF override_params.t = "None"
    THEN Raise("TypeError", "build_mnasnet_model", key)
  ELSE IF key \notin DOMAIN override_params.d
    THEN Raise("KeyError", "build_mnasnet_model", key)
  ELSE LET r == From(PyIntOf(override_params.d[key]), "build_mnasnet_model")
       IN IF r.ok THEN r ELSE [r EXCEPT !.err.detail = key]

\* namedtuple _replace(**kwds): a new record, or ValueError when kwds names
\* a field the record does not have
Replace(gp, kwds) ==
  IF DOMAIN kwds \subseteq DOMAIN gp
    THEN Ok([f \in DOMAIN gp |-> IF f \in DOMAIN kwds THEN kwds[f] ELSE gp[f]])
    ELSE Raise("ValueError", "_replace", CHOOSE f \in DOMAIN kwds : f \notin DOMAIN gp)

\* ApplyOverrides with a fault: the fields the record has are merged, the
\* others dropped
ApplyOverridesPartial(global_params, override_params) ==
  [base |-> global_params,
   out  |-> IF Truthy(override_params)
              THEN Ok([f \in DOMAIN global_params |->
                         IF f \in DOMAIN override_params.d
                           THEN override_params.d[f] ELSE global_params[f]])
              ELSE Ok(global_params)]

\* if override_params: global_params = global_params._replace(**override_params)
\* base is the record the preset returned, as the call leaves it
ApplyOverrides(global_params, override_params) ==
  [base |-> global_params,
   out  |-> IF Truthy(override_params)
              THEN Replace(global_params, override_params.d)
              ELSE Ok(global_params)]

Outcome(result, calls, built, base_gp, builder) ==
  [result |-> result, decodeCalls |-> calls, gpBuilt |-> built,
   base |-> base_gp, builderCalls |-> builder]

\* the statements after the preset returned
Finish(preset, override_params) ==
  IF ~preset.blocks.ok
    THEN Outcome(preset.blocks, preset.calls, 1, NoneV, 0)
    ELSE Only({ IF ~ov.out.ok
                  THEN Outcome(ov.out, preset.calls, 1, ov.base, 0)
                  ELSE Outcome(Ok([blocks_args   |-> preset.blocks.val,
                                   global_params |-> ov.out.val]),
                               preset.calls, 1, ov.base, 1)
                : ov \in {ApplyOverrides(preset.gp, override_params)} })

build_mnasnet_model(images_is_tensor, model_name, override_params) ==
  IF ~images_is_tensor
    THEN Outcome(Raise("AssertionError", "build_mnasnet_model", "images"), 0, 0, NoneV, 0)
  ELSE IF ~IsPredefined(model_name)
    THEN Outcome(Raise("NotImplementedError", "build_mnasnet_model", model_name), 0, 0, NoneV, 0)
  ELSE
    Only({ IF ~kernel.ok THEN Outcome(kernel, 0, 0, NoneV, 0)
           ELSE IF ~expratio.ok THEN Outcome(expratio, 0, 0, NoneV, 0)
           ELSE Only({ Finish(preset, override_params)
                       : preset \in {mnasnet_backbone(kernel.val, expratio.val)} })
           : kernel \in {BuildParam(override_params, "kernel")},
             expratio \in {BuildParam(override_params, "expratio")} })

(* ------------------------------- inputs -------------------------------- *)
\* each choice is the tokens (none or one) a block string holds for one key
RTokens  == { <<>>, << <<"r", "4">> >>, << <<"r", "4", "a">> >> }
KTokens  == { <<>>, << <<"k", "3">> >>, << <<"k", "3", ".", "5">> >> }
STokens  == { <<>>, << <<"s", "2">> >>, << <<"s", "2", "1">> >>, << <<"s", "2", "a">> >>, << <<"s", "2", "1", "2">> >> }
ETokens  == { <<>>, << <<"e", "6">> >> }
ITokens  == { <<>>, << <<"i", "1", "6">> >> }
OTokens  == { <<>>, << <<"o", "2", "4">> >> }
SeTokens == { <<>>, << <<"s", "e", "0", ".", "2", "5">> >> }
SkipTokens  == { <<>>, << <<"n", "o", "s", "k", "i", "p">> >> }
\* a second strides token at the end of the text
ExtraTokens == { <<>>, << <<"s", "1">> >> }

BlockStrings ==
  { Join(r \o k \o s \o e \o i \o o \o se \o ns \o x) :
      r \in RTokens, k \in KTokens, s \in STokens, e \in ETokens, i \in ITokens,
      o \in OTokens, se \in SeTokens, ns \in SkipTokens, x \in ExtraTokens }

SeRatios == { NoneV, PyFloat(0, 0), PyFloat(25, 2), PyFloat(1, 0), PyFloat(15, 1) }

Blocks ==
  [ num_repeat     : 1..MaxRepeat,
    kernel_size    : {3, 5},
    strides        : { <<1, 1>>, <<2, 1>>, <<1, 2>>, <<10, 1>> },
    expand_ratio   : {1, 6},
    input_filters  : {16, 192},
    output_filters : {24},
    id_skip        : BOOLEAN,
    se_ratio       : SeRatios ]

\* the blocks lists are drawn from
PoolBlock(r, st, se, skip) ==
  [num_repeat |-> r, kernel_size |-> 3, strides |-> st, expand_ratio |-> 6,
   input_filters |-> 16, output_filters |-> 24, id_skip |-> skip, se_ratio |-> se]

BlockPool ==
  { PoolBlock(1, <<1, 1>>, PyFloat(25, 2), TRUE),
    PoolBlock(2, <<2, 2>>, PyFloat(1, 0), FALSE),
    PoolBlock(1, <<2, 1>>, NoneV, TRUE),
    PoolBlock(1, <<1, 1>>, PyFloat(15, 1), TRUE) }

BlockLists == UNION { [1..n -> BlockPool] : n \in 0..MaxSeqLen }

ModelNames == { "mnasnet-backbone", "mnasnet-3x3-1", "mnasnet-a1" }

\* values a caller puts under 'kernel' and 'expratio'
ParamValues ==
  { PyInt(n) : n \in (-1)..MaxParam } \cup { PyStr(IntStr(n)) : n \in (-1)..MaxParam }
    \cup { PyStr(<<"a">>), NoneV }

EmptyDict == [f \in {} |-> NoneV]

KernelEntries   == { EmptyDict } \cup { [f \in {"kernel"} |-> v] : v \in ParamValues }
ExpratioEntries == { EmptyDict } \cup { [f \in {"expratio"} |-> v] : v \in ParamValues }
OtherEntries ==
  { EmptyDict,
    [f \in {"dropout_rate"} |-> PyFloat(5, 1)],
    [f \in {"dropout_rate", "nonexistent_field"} |->
        IF f = "dropout_rate" THEN PyFloat(5, 1) ELSE PyInt(1)] }

OverrideParams ==
  { NoneV } \cup { PyDict(a @@ b @@ c) :
                     a \in KernelEntries, b \in ExpratioEntries, c \in OtherEntries }

DepthMultipliers == { NoneV, PyFloat(5, 1), PyFloat(1, 0), PyFloat(14, 1) }

(* ---------------------------- state machine ---------------------------- *)
\* The module keeps nothing between calls (no globals, no registry), so a
\* behaviour is one call, made on a Python 2 or a Python 3 interpreter (the
\* file imports from __future__ to run on both); py is 0 before the call.
PyVersions == {2, 3}

Init ==
  /\ op = "init"
  /\ arg = NoneV
  /\ res = NoneV
  /\ py = 0
  /\ decodeCalls = 0
  /\ gpBuilt = 0
  /\ builderCalls = 0
  /\ base = NoneV

\* decoder._decode_block_string(block_string)
DecodeOne ==
  \E pyv \in PyVersions, block_string \in BlockStrings :
    /\ op = "init"
    /\ op' = "decode_one"
    /\ arg' = block_string
    /\ res' = _decode_block_string(block_string)
    /\ decodeCalls' = 1
    /\ gpBuilt' = 0 /\ builderCalls' = 0 /\ base' = NoneV
    /\ py' = pyv

\* decoder._encode_block_string(block)
EncodeOne ==
  \E pyv \in PyVersions, block \in Blocks :
    /\ op = "init"
    /\ op' = "encode_one"
    /\ arg' = block
    /\ res' = _encode_block_string(block, pyv)
    /\ decodeCalls' = 0
    /\ gpBuilt' = 0 /\ builderCalls' = 0 /\ base' = NoneV
    /\ py' = pyv

\* decoder.decode(decoder.encode(blocks_args))
RoundTrip ==
  \E pyv \in PyVersions, blocks_args \in BlockLists :
    \E enc \in {encode(blocks_args, pyv)} :
    \E dec \in {IF enc.ok THEN DecodeRun(enc.val) ELSE [result |-> enc, calls |-> 0]} :
       /\ op = "init"
       /\ op' = "round_trip"
       /\ arg' = blocks_args
       /\ res' = dec.result
       /\ decodeCalls' = dec.calls
       /\ gpBuilt' = 0 /\ builderCalls' = 0 /\ base' = NoneV
       /\ py' = pyv

\* mnasnet_3x3_1(depth_multiplier)
PresetFixed ==
  \E pyv \in PyVersions, depth_multiplier \in DepthMultipliers :
    \E p \in {mnasnet_3x3_1(depth_multiplier)} :
       /\ op = "init"
       /\ op' = "mnasnet_3x3_1"
       /\ arg' = depth_multiplier
       /\ res' = IF p.blocks.ok
                   THEN Ok([blocks_args |-> p.blocks.val, global_params |-> p.gp])
                   ELSE p.blocks
       /\ decodeCalls' = p.calls
       /\ gpBuilt' = 1 /\ builderCalls' = 0 /\ base' = p.gp
       /\ py' = pyv

\* mnasnet_backbone(k, e)
PresetBackbone ==
  \E pyv \in PyVersions, k \in (-1)..MaxParam, e \in (-1)..MaxParam :
    \E p \in {mnasnet_backbone(k, e)} :
       /\ op = "init"
       /\ op' = "mnasnet_backbone"
       /\ arg' = [k |-> k, e |-> e]
       /\ res' = IF p.blocks.ok
                   THEN Ok([blocks_args |-> p.blocks.val, global_params |-> p.gp])
                   ELSE p.blocks
       /\ decodeCalls' = p.calls
       /\ gpBuilt' = 1 /\ builderCalls' = 0 /\ base' = p.gp
       /\ py' = pyv

\* build_mnasnet_model(images, model_name, training, override_params)
Build ==
  \E pyv \in PyVersions, images_is_tensor \in BOOLEAN, model_name \in ModelNames,
     override_params \in OverrideParams :
    \E out \in {build_mnasnet_model(images_is_tensor, model_name, override_params)} :
       /\ op = "init"
       /\ op' = "build"
       /\ arg' = [images_is_tensor |-> images_is_tensor, model_name |-> model_name,
                  override_params |-> override_params]
       /\ res' = out.result
       /\ decodeCalls' = out.decodeCalls
       /\ gpBuilt' = out.gpBuilt
       /\ builderCalls' = out.builderCalls
       /\ base' = out.base
       /\ py' = pyv

Next == DecodeOne \/ EncodeOne \/ RoundTrip \/ PresetFixed \/ PresetBackbone \/ Build

Spec == Init /\ [][Next]_vars

(* ------------------------------- claims -------------------------------- *)
Positive(n) == n \in Nat \ {0}

\* the data-model invariants of a stage descriptor
ValidBlock(b) ==
  /\ Positive(b.num_repeat) /\ Positive(b.kernel_size) /\ Positive(b.expand_ratio)
  /\ Positive(b.input_filters) /\ Positive(b.output_filters)
  /\ b.strides[1] \in 1..9 /\ b.strides[2] \in 1..9
  /\ b.id_skip \in BOOLEAN
  /\ IF b.se_ratio.t = "None" THEN TRUE
     ELSE b.se_ratio.m > 0 /\ b.se_ratio.m <= Pow10(b.se_ratio.e)

\* C1 (as claimed): decode(encode(seq)) succeeds and returns seq, element by
\* element, for every list of valid descriptors, also when se_ratio is absent.
C1_RoundTripAll ==
  (op = "round_trip" /\ \A j \in 1..Len(arg) : ValidBlock(arg[j]))
    => (res.ok /\ res.val = arg)

\* the keys decode_one requires, with the names errors carry for them
RequiredKeys == { <<"s">>, <<"k">>, <<"r">>, <<"i">>, <<"o">>, <<"e">> }
KeyName(key) == key[1]

\* the keys of RequiredKeys for which the text holds no <key><digits> token
MissingKeys(text) == { key \in RequiredKeys : key \notin DOMAIN Options(text) }

\* C2 (as claimed): a text lacking one of s, k, r, i, o, e yields no
\* descriptor; the error is of the kind raised for a bad strides field
\* (ValueError) and identifies a missing key, or is the strides error itself.
C2_MissingKeyMalformed ==
  (op = "decode_one" /\ MissingKeys(arg) # {})
    => /\ ~res.ok
       /\ res.err.type = "ValueError"
       /\ \/ res.err.detail \in { KeyName(key) : key \in MissingKeys(arg) }
          \/ res.err.detail = "strides"

\* the value of the (last) s token of the text, <<>> when there is none
StridesValue(text) ==
  IF <<"s">> \in DOMAIN Options(text) THEN Options(text)[<<"s">>] ELSE <<>>

ExpectedTokens(b) ==
  << <<"r">> \o IntStr(b.num_repeat), <<"k">> \o IntStr(b.kernel_size),
     <<"s">> \o IntStr(b.strides[1]) \o IntStr(b.strides[2]),
     <<"e">> \o IntStr(b.expand_ratio), <<"i">> \o IntStr(b.input_filters),
     <<"o">> \o IntStr(b.output_filters) >>
  \o (IF b.se_ratio.t = "float" /\ b.se_ratio.m > 0 /\ b.se_ratio.m <= Pow10(b.se_ratio.e)
        THEN << <<"s", "e">> \o FloatStr(b.se_ratio) >> ELSE <<>>)
  \o (IF ~b.id_skip THEN << <<"n", "o", "s", "k", "i", "p">> >> ELSE <<>>)

\* C4 (as claimed): encode_one never fails; its text is the tokens r, k, s, e,
\* i, o, then se<se_ratio> iff se_ratio is present and in (0, 1], then noskip
\* iff id_skip is false, joined by "_"; an absent se_ratio gives no se token
\* and no error.
C4_EncodeNeverFails ==
  op = "encode_one" => (res.ok /\ Split(res.val) = ExpectedTokens(arg))

\* int(v) succeeds on v
IntCoercible(v) ==
  \/ v.t = "int"
  \/ /\ v.t = "str"
     /\ \E n \in (-9)..9 : v.s = IntStr(n)

IntValue(v) == IF v.t = "int" THEN v.i ELSE CHOOSE n \in (-9)..9 : v.s = IntStr(n)

BackboneCall ==
  /\ op = "build"
  /\ arg.images_is_tensor
  /\ arg.model_name = "mnasnet-backbone"

\* the mapping holds the two build-time parameters, both integer-coercible
HasBuildParams ==
  /\ arg.override_params.t = "dict"
  /\ {"kernel", "expratio"} \subseteq DOMAIN arg.override_params.d
  /\ IntCoercible(arg.override_params.d["kernel"])
  /\ IntCoercible(arg.override_params.d["expratio"])

\* the mapping holds nothing besides them: the override mapping is empty
NoOverrides == DOMAIN arg.override_params.d = {"kernel", "expratio"}

BuildKernel   == IntValue(arg.override_params.d["kernel"])
BuildExpratio == IntValue(arg.override_params.d["expratio"])

\* C5: with every key of the mapping a field of the preset's record, the
\* result is that record with the named fields replaced; with any key that is
\* no field, the call fails with the _replace ValueError naming such a key and
\* nothing is handed to the model builder; the preset's record is as built.
C5_OverridesAllOrNothing ==
  (BackboneCall /\ HasBuildParams /\ decodeCalls = 7)
    => /\ base = BackboneGlobalParams(BuildKernel, BuildExpratio)
       /\ (DOMAIN arg.override_params.d \subseteq DOMAIN base)
            => /\ res.ok
               /\ DOMAIN res.val.global_params = DOMAIN base
               /\ \A f \in DOMAIN base :
                    res.val.global_params[f] =
                      IF f \in DOMAIN arg.override_params.d
                        THEN arg.override_params.d[f] ELSE base[f]
       /\ ~(DOMAIN arg.override_params.d \subseteq DOMAIN base)
            => /\ ~res.ok
               /\ res.err.type = "ValueError"
               /\ res.err.at = "_replace"
               /\ res.err.detail \in DOMAIN arg.override_params.d
               /\ res.err.detail \notin DOMAIN base
               /\ builderCalls = 0

\* a mapping with a valid and an unknown field is rejected whole
C5_Witness ==
  /\ BackboneCall /\ HasBuildParams
  /\ "dropout_rate" \in DOMAIN arg.override_params.d
  /\ "nonexistent_field" \in DOMAIN arg.override_params.d
  /\ ~res.ok /\ res.err.at = "_replace"

StagesAsPreset(blocks, k, e) ==
  /\ Len(blocks) = 7
  /\ \A j \in 2..6 : blocks[j].kernel_size = k /\ blocks[j].expand_ratio = e
  /\ blocks[1].kernel_size = 3 /\ blocks[1].expand_ratio = 1 /\ ~blocks[1].id_skip
  /\ blocks[7].kernel_size = 3 /\ blocks[7].expand_ratio = 6 /\ ~blocks[7].id_skip

\* C6 (as claimed): for every integer-coercible kernel and expratio and no
\* overrides, the build succeeds with 7 stages, stages 2-6 carrying kernel
\* and expratio, stage 1 (3, 1, noskip) and stage 7 (3, 6, noskip).
C6_EndToEndAll ==
  (BackboneCall /\ HasBuildParams /\ NoOverrides)
    => (res.ok /\ StagesAsPreset(res.val.blocks_args, BuildKernel, BuildExpratio))

\* C6 (amended): the same for kernel and expratio coercible to integers that
\* are not negative.
C6_EndToEndNonNegative ==
  (BackboneCall /\ HasBuildParams /\ NoOverrides /\ BuildKernel >= 0 /\ BuildExpratio >= 0)
    => (res.ok /\ StagesAsPreset(res.val.blocks_args, BuildKernel, BuildExpratio))

\* a build from the string forms of two different parameters
C6_Witness ==
  /\ BackboneCall /\ HasBuildParams /\ NoOverrides
  /\ arg.override_params.d["kernel"] = PyStr(<<"2">>)
  /\ arg.override_params.d["expratio"] = PyStr(<<"3">>)
  /\ res.ok /\ res.val.blocks_args[6].kernel_size = 2

\* C7 (as claimed): with no overrides, the GlobalParams returned is the record
\* the preset built, kernel and expratio being the integer-coerced values.
C7_PassThrough ==
  (BackboneCall /\ HasBuildParams /\ NoOverrides /\ res.ok)
    => res.val.global_params = BackboneGlobalParams(BuildKernel, BuildExpratio)

\* C8: every model name other than mnasnet-backbone is rejected with
\* NotImplementedError naming it, whatever override_params is; nothing is
\* decoded, no GlobalParams is built and the model builder is not called.
C8_UnknownPresetRejected ==
  (op = "build" /\ arg.images_is_tensor /\ arg.model_name # "mnasnet-backbone")
    => /\ ~res.ok
       /\ res.err.type = "NotImplementedError"
       /\ res.err.detail = arg.model_name
       /\ decodeCalls = 0 /\ gpBuilt = 0 /\ builderCalls = 0
       /\ base = NoneV

\* the name of the fixed preset, with usable parameters, is rejected too
C8_Witness ==
  /\ op = "build" /\ arg.images_is_tensor
  /\ arg.model_name = "mnasnet-3x3-1"
  /\ HasBuildParams
  /\ ~res.ok /\ res.err.type = "NotImplementedError"

\* C9: when kernel or expratio is missing (or no mapping is given) or is not
\* integer-coercible, the backbone build fails in build_mnasnet_model on that
\* parameter, before any block string is decoded, any GlobalParams is built
\* or the model builder is called.
C9_BuildParamValidated ==
  (BackboneCall /\ ~HasBuildParams)
    => /\ ~res.ok
       /\ res.err.at = "build_mnasnet_model"
       /\ res.err.type \in {"KeyError", "TypeError", "ValueError"}
       /\ res.err.detail \in {"kernel", "expratio"}
       /\ decodeCalls = 0 /\ gpBuilt = 0 /\ builderCalls = 0
       /\ base = NoneV

\* kernel is usable and expratio is not a number
C9_Witness ==
  /\ BackboneCall
  /\ arg.override_params.t = "dict"
  /\ {"kernel", "expratio"} \subseteq DOMAIN arg.override_params.d
  /\ arg.override_params.d["kernel"] = PyInt(3)
  /\ arg.override_params.d["expratio"] = PyStr(<<"a">>)
  /\ ~res.ok /\ res.err.type = "ValueError" /\ res.err.detail = "expratio"

Chained(blocks) ==
  /\ Len(blocks) = 7
  /\ blocks[1].input_filters = 32
  /\ blocks[7].output_filters = 320
  /\ \A j \in 1..6 : blocks[j + 1].input_filters = blocks[j].output_filters

\* C10 (as claimed): both presets decode to 7 stages from 32 to 320 filters,
\* each stage taking the filters the one before it gives, for any k and e;
\* the backbone with k = 3, e = 1 is the fixed preset.
C10_ChainedAll ==
  /\ op = "mnasnet_3x3_1" => (res.ok /\ Chained(res.val.blocks_args))
  /\ op = "mnasnet_backbone"
       => /\ res.ok /\ Chained(res.val.blocks_args)
          /\ (arg.k = 3 /\ arg.e = 1) => Ok(res.val.blocks_args) = decode(FixedStrings)

\* C10 (amended): the same, for k and e that are not negative.
C10_ChainedNonNegative ==
  /\ op = "mnasnet_3x3_1" => (res.ok /\ Chained(res.val.blocks_args))
  /\ (op = "mnasnet_backbone" /\ arg.k >= 0 /\ arg.e >= 0)
       => /\ res.ok /\ Chained(res.val.blocks_args)
          /\ (arg.k = 3 /\ arg.e = 1) => Ok(res.val.blocks_args) = decode(FixedStrings)

\* the backbone preset built with the fixed preset's kernel and expansion
C10_Witness ==
  /\ op = "mnasnet_backbone" /\ arg.k = 3 /\ arg.e = 1
  /\ res.ok /\ Len(res.val.blocks_args) = 7

====
